---- MODULE Spec2Model ----
(***************************************************************************)
(* Job-application tracker: the application routes of the REST backend     *)
(* (backend/src/routes/applications.ts), the company create route they     *)
(* depend on, and the relational state they act on (the Company,           *)
(* Application and StatusHistory tables of the migration).                 *)
(*                                                                         *)
(* Every HTTP request is an independent asynchronous handler.  A handler   *)
(* runs synchronously up to each `await prisma...` call; each such call is *)
(* one statement against the database.  The model therefore takes one      *)
(* step per awaited database call, and requests in different slots         *)
(* interleave between those steps.                                         *)
(***************************************************************************)
EXTENDS Integers, Sequences, FiniteSets, TLC

(* ------------------------------ bounds -------------------------------- *)
MaxReq == 2          \* request handlers in flight at once
MaxApps == 1         \* Application rows ever inserted (SERIAL ids 1..MaxApps)
MaxCompanies == 2    \* Company rows ever inserted (SERIAL ids 1..MaxCompanies)
MaxHist == 3         \* StatusHistory rows per application
MaxFieldReq == 1     \* request handlers in flight at once when every field varies
MaxInterviews == 1   \* Interview rows ever inserted
MaxDocuments == 1    \* Document rows ever inserted

Users == {1, 2}
CompanyNames == {"acme"}

ReqIds == 1..MaxReq
AppIds == 1..MaxApps
CompanyIds == 1..MaxCompanies
DocumentIds == 1..MaxDocuments

(* --------------------------- vocabulary ------------------------------- *)
\* JavaScript `undefined`: a field that is absent from a payload or a row.
None == "undefined"
\* The id of no row (a payload without companyId, a handler without a row).
NoId == 0
\* JSON null, SQL NULL.
Null == "null"

ApplicationStatus ==
    {"applied", "reviewing", "interview_scheduled", "interviewed",
     "offer", "rejected", "withdrawn"}

\* z.enum([...]).optional() of the status field
StatusSchemaOk(s) == s = None \/ s \in ApplicationStatus

\* The storage vocabularies: the enum types of the database.
EmploymentType == {"full_time", "part_time", "contract", "internship"}
WorkType == {"remote", "hybrid", "on_site"}
Priority == {"low", "medium", "high", "urgent"}
InterviewType ==
    {"phone", "video", "in_person", "technical", "behavioral", "panel", "final"}

\* const mapping = { ... } of each mapper: presentation value -> storage value.
EmploymentTypeMapping ==
    ("full-time" :> "full_time") @@ ("part-time" :> "part_time") @@
    ("contract" :> "contract") @@ ("internship" :> "internship")

WorkTypeMapping ==
    ("remote" :> "remote") @@ ("hybrid" :> "hybrid") @@ ("on-site" :> "on_site")

PriorityMapping ==
    ("low" :> "low") @@ ("medium" :> "medium") @@ ("high" :> "high")

InterviewTypeMapping ==
    ("phone" :> "phone") @@ ("video" :> "video") @@ ("in-person" :> "in_person") @@
    ("technical" :> "technical") @@ ("behavioral" :> "behavioral") @@
    ("panel" :> "panel") @@ ("final" :> "final")

\* const mapping = { ... } of each reverse mapper: storage -> presentation.
ReverseEmploymentTypeMapping ==
    ("full_time" :> "full-time") @@ ("part_time" :> "part-time") @@
    ("contract" :> "contract") @@ ("internship" :> "internship")

ReverseWorkTypeMapping ==
    ("remote" :> "remote") @@ ("hybrid" :> "hybrid") @@ ("on_site" :> "on-site")

ReversePriorityMapping ==
    ("low" :> "low") @@ ("medium" :> "medium") @@ ("high" :> "high")

\* const mapping = { ... } of mapStatus and of reverseMapStatus.
StatusMapping == [x \in ApplicationStatus |-> x]

\* Property names every object literal inherits from Object.prototype; the
\* value read under such a name is a function or an object, hence truthy.
ObjectPrototypeKeys == {"constructor", "toString", "__proto__"}
Inherited(key) == "Object.prototype." \o key

\* mapping[value] || default: the entry of the table, else a property the
\* table object inherits, else the default.
Lookup(mapping, value, default) ==
    IF value \in DOMAIN mapping THEN mapping[value]
    ELSE IF value \in ObjectPrototypeKeys THEN Inherited(value)
    ELSE default

\* An employment type stored as the client spelled it.
mapEmploymentTypeAsSent(frontendValue) == frontendValue

mapEmploymentType(frontendValue) ==
    Lookup(EmploymentTypeMapping, frontendValue, "full_time")

mapWorkType(frontendValue) == Lookup(WorkTypeMapping, frontendValue, "remote")

mapPriority(frontendValue) == Lookup(PriorityMapping, frontendValue, "medium")

mapStatus(frontendValue) == Lookup(StatusMapping, frontendValue, "applied")

mapInterviewType(frontendValue) ==
    Lookup(InterviewTypeMapping, frontendValue, "phone")

\* A work type handed to the edit form as stored.
reverseMapWorkTypeAsStored(dbValue) == dbValue

reverseMapEmploymentType(dbValue) ==
    Lookup(ReverseEmploymentTypeMapping, dbValue, "full-time")

reverseMapWorkType(dbValue) == Lookup(ReverseWorkTypeMapping, dbValue, "remote")

reverseMapPriority(dbValue) == Lookup(ReversePriorityMapping, dbValue, "medium")

reverseMapStatus(dbValue) == Lookup(StatusMapping, dbValue, "applied")

\* The fields that have a mapper; "type" is the type of an interview.
MapperFields == {"employmentType", "workType", "priority", "status", "type"}

\* The fields the edit form maps back.
ReverseMapperFields == MapperFields \ {"type"}

MappingOf(field) ==
    CASE field = "employmentType" -> EmploymentTypeMapping
      [] field = "workType" -> WorkTypeMapping
      [] field = "priority" -> PriorityMapping
      [] field = "status" -> StatusMapping
      [] field = "type" -> InterviewTypeMapping

ReverseMappingOf(field) ==
    CASE field = "employmentType" -> ReverseEmploymentTypeMapping
      [] field = "workType" -> ReverseWorkTypeMapping
      [] field = "priority" -> ReversePriorityMapping
      [] field = "status" -> StatusMapping

StorageVocabulary(field) ==
    CASE field = "employmentType" -> EmploymentType
      [] field = "workType" -> WorkType
      [] field = "priority" -> Priority
      [] field = "status" -> ApplicationStatus
      [] field = "type" -> InterviewType

\* The backend mapper of a field.
toStorage(field, value) ==
    CASE field = "employmentType" -> mapEmploymentType(value)
      [] field = "workType" -> mapWorkType(value)
      [] field = "priority" -> mapPriority(value)
      [] field = "status" -> mapStatus(value)
      [] field = "type" -> mapInterviewType(value)

\* The edit form's reverse mapper of a field.
toPresentation(field, value) ==
    CASE field = "employmentType" -> reverseMapEmploymentType(value)
      [] field = "workType" -> reverseMapWorkType(value)
      [] field = "priority" -> reverseMapPriority(value)
      [] field = "status" -> reverseMapStatus(value)

\* z.enum([...]).optional() of employmentType, workType and priority
EmploymentTypeSchemaOk(v) ==
    v = None \/ v \in {"full-time", "part-time", "contract", "internship"}

WorkTypeSchemaOk(v) == v = None \/ v \in {"remote", "hybrid", "on-site"}

PrioritySchemaOk(v) == v = None \/ v \in {"low", "medium", "high"}

\* Payload values the model sends: absent, two valid statuses, one invalid.
StatusInputs == {None, "applied", "interviewed", "bogus"}
TitleInputs == {None, "Engineer"}

VARIABLES
    companies,          \* Company table: id -> [userId, name]
    applications,       \* Application table: id -> [userId, companyId, status, ...]
    statusHistory,      \* StatusHistory rows of each application id, oldest first
    nextCompanyId,      \* Company.id SERIAL
    nextApplicationId,  \* Application.id SERIAL
    interviews,         \* Interview table: id -> [applicationId, type]
    tasks,              \* Task table: id -> [userId, applicationId]
    documents,          \* Document table: id -> [userId, applicationId]
    nextInterviewId,    \* Interview.id SERIAL
    nextDocumentId,     \* Document.id SERIAL
    reqs,               \* the request handlers in flight
    response,           \* the response sent last
    probe,              \* a value on its way through the field mappers
    page                \* what the application page in the browser holds

\* The tables that reference Application besides StatusHistory.
linked == <<interviews, tasks, documents, nextInterviewId, nextDocumentId>>

db == <<companies, applications, statusHistory, nextCompanyId, nextApplicationId,
        linked>>

vars == <<db, reqs, response, probe, page>>

(* --------------------------- request records -------------------------- *)
NoBody ==
    [companyId |-> NoId, status |-> None, positionTitle |-> None, name |-> None,
     priority |-> None, employmentType |-> None, workType |-> None,
     location |-> None, applicationId |-> NoId, type |-> None,
     ids |-> <<>>]
NoRow ==
    [userId |-> 0, companyId |-> NoId, status |-> None, positionTitle |-> None,
     priority |-> None, employmentType |-> None, workType |-> None,
     location |-> None]
NoApplication == [id |-> NoId, status |-> None]

\* A slot with no handler running.
IdleReq ==
    [op |-> "none", user |-> 0, id |-> NoId, body |-> NoBody, pc |-> "idle",
     existingApplication |-> NoRow, application |-> NoApplication]

NoResponse ==
    [op |-> "none", user |-> 0, id |-> NoId, code |-> 0, message |-> "", out |-> {}]

\* req.body of POST /api/applications
PostBodies ==
    [companyId : {NoId} \cup CompanyIds, status : StatusInputs,
     positionTitle : TitleInputs, name : {None},
     priority : {None}, employmentType : {None}, workType : {None},
     location : {None}, applicationId : {NoId}, type : {None},
     ids : {<<>>}]

\* req.body of PUT /api/applications/:id
PutBodies ==
    [companyId : {NoId} \cup CompanyIds, status : StatusInputs,
     positionTitle : {None}, name : {None},
     priority : {None}, employmentType : {None}, workType : {None},
     location : {None}, applicationId : {NoId}, type : {None},
     ids : {<<>>}]

\* req.body of POST /api/companies
CompanyBodies ==
    [companyId : {NoId}, status : {None}, positionTitle : {None},
     name : {None} \cup CompanyNames,
     priority : {None}, employmentType : {None}, workType : {None},
     location : {None}, applicationId : {NoId}, type : {None},
     ids : {<<>>}]

\* The requests a client can send to a route: authenticated user, :id, body.
Requests(op) ==
    CASE op = "app_post" ->
            [op : {op}, user : Users, id : {NoId}, body : PostBodies]
      [] op = "app_put" ->
            [op : {op}, user : Users, id : AppIds, body : PutBodies]
      [] op \in {"app_delete", "app_get"} ->
            [op : {op}, user : Users, id : AppIds, body : {NoBody}]
      [] op = "app_list" ->
            [op : {op}, user : Users, id : {NoId}, body : {NoBody}]
      [] op = "company_post" ->
            [op : {op}, user : Users, id : {NoId}, body : CompanyBodies]

InFlight(r) == reqs[r].pc # "idle"

\* A new handler takes the first free slot (the slots are interchangeable).
Free(r) == ~InFlight(r) /\ \A s \in ReqIds : s < r => InFlight(s)

\* Handlers in flight on the given routes.
Pending(ops) == {s \in ReqIds : reqs[s].op \in ops}

(* ------------------------------ queries ------------------------------- *)
\* A company lookup by id alone.
CompanyOwnedAnyOwner(companyId, userId) == companyId \in DOMAIN companies

\* prisma.company.findFirst({ where: { id, userId } })
CompanyOwned(companyId, userId) ==
    companyId \in DOMAIN companies /\ companies[companyId].userId = userId

\* An application lookup without the userId filter.
ApplicationOwnedAnyOwner(applicationId, userId) == applicationId \in DOMAIN applications

\* prisma.application.findFirst({ where: { id, userId } })
ApplicationOwned(applicationId, userId) ==
    applicationId \in DOMAIN applications /\ applications[applicationId].userId = userId

\* Reading a property of a JSON object: undefined when the object has no such key.
Field(row, key) == IF key \in DOMAIN row THEN row[key] ELSE None

(* ------------------------------ responses ----------------------------- *)
\* res.status(code).json({ message, ... }) for request q: the handler ends.
Reply(r, q, code, message, out) ==
    /\ reqs' = [reqs EXCEPT ![r] = IdleReq]
    /\ response' = [op |-> q.op, user |-> q.user, id |-> q.id, code |-> code,
                    message |-> message, out |-> out]

\* The handler of request q suspends at its next awaited call.
Await(r, q, pc, existingApplication, application) ==
    /\ reqs' = [reqs EXCEPT ![r] =
                  [op |-> q.op, user |-> q.user, id |-> q.id, body |-> q.body,
                   pc |-> pc, existingApplication |-> existingApplication,
                   application |-> application]]
    /\ UNCHANGED response

FailureMessage(op) ==
    CASE op = "app_post" -> "Failed to create application"
      [] op = "app_put" -> "Failed to update application"
      [] op = "app_delete" -> "Failed to delete application"
      [] op = "app_bulk_delete" -> "Failed to delete applications"
      [] op = "app_get" -> "Failed to fetch application"
      [] op = "app_list" -> "Failed to fetch applications"
      [] op = "company_post" -> "Failed to create company"
      [] op = "company_put" -> "Failed to update company"
      [] op = "company_delete" -> "Failed to delete company"
      [] op = "interview_post" -> "Failed to create interview"
      [] op = "document_post" -> "Failed to upload document"
      [] op = "document_patch" -> "Failed to update document"

\* catch (error) { ... res.status(500) }
Fail(r, q) == Reply(r, q, 500, FailureMessage(q.op), {})

\* No value is on its way through the mappers.
NoProbe ==
    [field |-> "none", stage |-> "idle", value |-> None, arg |-> None,
     origin |-> None]

\* No page is open.
NoPage ==
    [view |-> "none", id |-> NoId, application |-> NoRow, statusHistory |-> <<>>,
     newStatus |-> None, formData |-> NoBody]

(* ------------------------------- Init --------------------------------- *)
Init ==
    /\ companies = <<>>
    /\ applications = <<>>
    /\ statusHistory = [a \in AppIds |-> <<>>]
    /\ nextCompanyId = 1
    /\ nextApplicationId = 1
    /\ interviews = <<>>
    /\ tasks = <<>>
    /\ documents = <<>>
    /\ nextInterviewId = 1
    /\ nextDocumentId = 1
    /\ reqs = [r \in ReqIds |-> IdleReq]
    /\ response = NoResponse
    /\ probe = NoProbe
    /\ page = NoPage

(* ---------------------- POST /api/applications ------------------------ *)
\* createApplicationSchema.parse(req.body)
CreateSchemaOk(body) ==
    /\ body.companyId # NoId
    /\ body.positionTitle # None
    /\ StatusSchemaOk(body.status)
    /\ EmploymentTypeSchemaOk(body.employmentType)
    /\ WorkTypeSchemaOk(body.workType)
    /\ PrioritySchemaOk(body.priority)

\* updateApplicationSchema = createApplicationSchema.partial()
UpdateSchemaOk(body) ==
    /\ StatusSchemaOk(body.status)
    /\ EmploymentTypeSchemaOk(body.employmentType)
    /\ WorkTypeSchemaOk(body.workType)
    /\ PrioritySchemaOk(body.priority)

\* A company lookup without the userId filter.
PostCompanyFoundAnyOwner(body, userId) == body.companyId \in DOMAIN companies

\* The company lookup of POST: is the payload's company one of the caller's?
PostCompanyFound(body, userId) == CompanyOwned(body.companyId, userId)

\* A creation that stores the payload's status as sent, absent or not.
InitialStatusAsSent(body) == body.status

\* A creation that ignores the payload's status.
InitialStatusIgnoringPayload(body) == "applied"

\* applicationData.status
InitialStatus(body) ==
    IF body.status # None THEN mapStatus(body.status) ELSE "applied"

\* A row built from the payload as sent: no default, no translation.
ApplicationDataAsSent(userId, body) ==
    [userId |-> userId,
     companyId |-> body.companyId,
     positionTitle |-> body.positionTitle,
     status |-> body.status,
     priority |-> body.priority,
     employmentType |-> body.employmentType,
     workType |-> body.workType,
     location |-> body.location]

\* applicationData: the row to insert, a default for each omitted enum field
\* and null for an omitted (or empty) location.
ApplicationData(userId, body) ==
    [userId |-> userId,
     companyId |-> body.companyId,
     positionTitle |-> body.positionTitle,
     status |-> InitialStatus(body),
     priority |-> IF body.priority # None THEN mapPriority(body.priority)
                                          ELSE "medium",
     employmentType |-> IF body.employmentType # None
                          THEN mapEmploymentType(body.employmentType)
                          ELSE "full_time",
     workType |-> IF body.workType # None THEN mapWorkType(body.workType)
                                          ELSE "remote",
     location |-> IF body.location \in {None, Null, ""} THEN Null
                                                         ELSE body.location]

\* The StatusHistory row written at creation.
CreatedEntry(application) ==
    [status |-> application.status, notes |-> "Application created"]

\* Request q arrives; validation, then the company lookup.
PostFindCompanyOf(r, q) ==
    /\ Free(r)
    /\ nextApplicationId + Cardinality(Pending({"app_post"})) <= MaxApps
    /\ IF ~CreateSchemaOk(q.body)
         THEN Reply(r, q, 400, "Validation failed", {})
         ELSE IF ~PostCompanyFound(q.body, q.user)
                THEN Reply(r, q, 400, "Company not found or does not belong to user", {})
                ELSE Await(r, q, "post_create", NoRow, NoApplication)
    /\ UNCHANGED <<db, probe, page>>

PostFindCompany(r) == \E q \in Requests("app_post") : PostFindCompanyOf(r, q)

\* prisma.application.create: the insert takes the next SERIAL id, and fails
\* on Application_companyId_fkey when the company row is gone.
PostCreate(r) ==
    /\ reqs[r].op = "app_post" /\ reqs[r].pc = "post_create"
    /\ nextApplicationId' = nextApplicationId + 1
    /\ IF reqs[r].body.companyId \notin DOMAIN companies
         THEN /\ Fail(r, reqs[r])
              /\ UNCHANGED <<applications>>
         ELSE LET row == ApplicationData(reqs[r].user, reqs[r].body) IN
              /\ applications' = applications @@ (nextApplicationId :> row)
              /\ Await(r, reqs[r], "post_history", NoRow,
                       [id |-> nextApplicationId, status |-> row.status])
    /\ UNCHANGED <<companies, statusHistory, nextCompanyId, linked, probe, page>>

\* prisma.statusHistory.create, then the 201 response.
PostHistory(r) ==
    /\ reqs[r].op = "app_post" /\ reqs[r].pc = "post_history"
    /\ LET application == reqs[r].application IN
       IF application.id \notin DOMAIN applications
         THEN /\ Fail(r, reqs[r])
              /\ UNCHANGED statusHistory
         ELSE /\ statusHistory' = [statusHistory EXCEPT ![application.id] =
                                      Append(@, CreatedEntry(application))]
              /\ Reply(r, reqs[r], 201, "Application created successfully",
                       {[id |-> application.id, userId |-> reqs[r].user]})
    /\ UNCHANGED <<companies, applications, nextCompanyId, nextApplicationId, linked, probe, page>>

(* --------------------- PUT /api/applications/:id ---------------------- *)
\* Room left for the history rows the handlers in flight may still write.
HistoryRoom(id) ==
    Len(statusHistory[id]) + Cardinality(Pending({"app_post", "app_put"})) < MaxHist

\* Request q arrives; validation, the ownership lookup, and the branch on
\* validatedData.companyId.
PutFindExistingOf(r, q) ==
    /\ Free(r)
    /\ q.body.status # None => HistoryRoom(q.id)
    /\ IF ~UpdateSchemaOk(q.body)
         THEN Reply(r, q, 400, "Validation failed", {})
         ELSE IF ~ApplicationOwned(q.id, q.user)
                THEN Reply(r, q, 404, "Application not found", {})
                ELSE Await(r, q,
                           IF q.body.companyId # NoId THEN "put_company"
                                                      ELSE "put_update",
                           applications[q.id], NoApplication)
    /\ UNCHANGED <<db, probe, page>>

PutFindExisting(r) == \E q \in Requests("app_put") : PutFindExistingOf(r, q)

PutFindCompany(r) ==
    /\ reqs[r].op = "app_put" /\ reqs[r].pc = "put_company"
    /\ IF ~CompanyOwned(reqs[r].body.companyId, reqs[r].user)
         THEN Reply(r, reqs[r], 400, "Company not found or does not belong to user", {})
         ELSE Await(r, reqs[r], "put_update", reqs[r].existingApplication, NoApplication)
    /\ UNCHANGED <<db, probe, page>>

\* An update that rebuilds the row the way creation does: defaults for the
\* fields the payload omits.
UpdatedRowWithDefaults(row, body) ==
    [ApplicationData(row.userId, body) EXCEPT
        !.positionTitle = IF body.positionTitle # None THEN body.positionTitle
                                                       ELSE row.positionTitle,
        !.companyId = IF body.companyId # NoId THEN body.companyId ELSE row.companyId]

\* updateData: only the fields the payload carries are written (truthy for
\* the core fields, !== undefined for the others, so null is written through).
UpdatedRow(row, body) ==
    [row EXCEPT
        !.positionTitle = IF body.positionTitle # None THEN body.positionTitle ELSE @,
        !.companyId = IF body.companyId # NoId THEN body.companyId ELSE @,
        !.status = IF body.status # None THEN mapStatus(body.status) ELSE @,
        !.priority = IF body.priority # None THEN mapPriority(body.priority) ELSE @,
        !.employmentType = IF body.employmentType # None
                             THEN mapEmploymentType(body.employmentType) ELSE @,
        !.workType = IF body.workType # None THEN mapWorkType(body.workType) ELSE @,
        !.location = IF body.location # None THEN body.location ELSE @]

\* A recorder that does not compare with the stored status.
StatusChangedWheneverPresent(body, existingApplication) == body.status # None

\* if (validatedData.status && validatedData.status !== existingApplication.status)
StatusChanged(body, existingApplication) ==
    body.status # None /\ body.status # existingApplication.status

\* The StatusHistory row written by an update.
UpdatedEntry(application, body) ==
    [status |-> application.status, notes |-> "Status updated to " \o body.status]

\* prisma.application.update({ where: { id } }): fails when the row is gone or
\* the new companyId has no row; otherwise writes updateData.  The handler
\* then decides from its earlier read whether a history row is due.
PutUpdate(r) ==
    /\ reqs[r].op = "app_put" /\ reqs[r].pc = "put_update"
    /\ LET id == reqs[r].id
           body == reqs[r].body
       IN IF \/ id \notin DOMAIN applications
             \/ (body.companyId # NoId /\ body.companyId \notin DOMAIN companies)
            THEN /\ Fail(r, reqs[r])
                 /\ UNCHANGED applications
            ELSE LET row == UpdatedRow(applications[id], body) IN
                 /\ applications' = [applications EXCEPT ![id] = row]
                 /\ IF StatusChanged(body, reqs[r].existingApplication)
                      THEN Await(r, reqs[r], "put_history",
                                 reqs[r].existingApplication,
                                 [id |-> id, status |-> row.status])
                      ELSE Reply(r, reqs[r], 200, "Application updated successfully",
                                 {[id |-> id, userId |-> row.userId]})
    /\ UNCHANGED <<companies, statusHistory, nextCompanyId, nextApplicationId, linked, probe, page>>

\* An update that keeps only the latest entry of the history.
PutHistoryRewriting(r) ==
    /\ reqs[r].op = "app_put" /\ reqs[r].pc = "put_history"
    /\ LET application == reqs[r].application IN
       IF application.id \notin DOMAIN applications
         THEN /\ Fail(r, reqs[r])
              /\ UNCHANGED statusHistory
         ELSE /\ statusHistory' = [statusHistory EXCEPT ![application.id] =
                                      <<UpdatedEntry(application, reqs[r].body)>>]
              /\ Reply(r, reqs[r], 200, "Application updated successfully",
                       {[id |-> application.id, userId |-> reqs[r].user]})
    /\ UNCHANGED <<companies, applications, nextCompanyId, nextApplicationId,
                   linked, probe, page>>

\* prisma.statusHistory.create of the update, then the 200 response.
PutHistory(r) ==
    /\ reqs[r].op = "app_put" /\ reqs[r].pc = "put_history"
    /\ LET application == reqs[r].application IN
       IF application.id \notin DOMAIN applications
         THEN /\ Fail(r, reqs[r])
              /\ UNCHANGED statusHistory
         ELSE /\ statusHistory' = [statusHistory EXCEPT ![application.id] =
                                      Append(@, UpdatedEntry(application, reqs[r].body))]
              /\ Reply(r, reqs[r], 200, "Application updated successfully",
                       {[id |-> application.id, userId |-> reqs[r].user]})
    /\ UNCHANGED <<companies, applications, nextCompanyId, nextApplicationId, linked, probe, page>>

(* -------------------- DELETE /api/applications/:id -------------------- *)
\* Request q arrives; the ownership lookup.
DeleteFindOf(r, q) ==
    /\ Free(r)
    /\ IF ~ApplicationOwned(q.id, q.user)
         THEN Reply(r, q, 404, "Application not found", {})
         ELSE Await(r, q, "delete_do", NoRow, NoApplication)
    /\ UNCHANGED <<db, probe, page>>

DeleteFind(r) == \E q \in Requests("app_delete") : DeleteFindOf(r, q)

\* A foreign key that leaves the referencing rows in place.
OnDeleteKeep(table, id) == table

\* FOREIGN KEY ("applicationId") REFERENCES "Application"("id") ON DELETE
\* CASCADE: the rows of the table that reference the deleted id go with it.
OnDeleteCascade(table, id) ==
    [k \in {x \in DOMAIN table : table[x].applicationId # id} |-> table[k]]

\* prisma.application.delete; the foreign keys of StatusHistory, Interview,
\* Task and Document on Application are ON DELETE CASCADE.
DeleteApplication(r) ==
    /\ reqs[r].op = "app_delete" /\ reqs[r].pc = "delete_do"
    /\ LET id == reqs[r].id IN
       IF id \notin DOMAIN applications
         THEN /\ Fail(r, reqs[r])
              /\ UNCHANGED <<applications, statusHistory, interviews, tasks, documents>>
         ELSE /\ applications' = [a \in DOMAIN applications \ {id} |-> applications[a]]
              /\ statusHistory' = [statusHistory EXCEPT ![id] = <<>>]
              /\ interviews' = OnDeleteCascade(interviews, id)
              /\ tasks' = OnDeleteCascade(tasks, id)
              /\ documents' = OnDeleteCascade(documents, id)
              /\ Reply(r, reqs[r], 200, "Application deleted successfully", {})
    /\ UNCHANGED <<companies, nextCompanyId, nextApplicationId, nextInterviewId,
                   nextDocumentId, probe, page>>

(* ------------------------- GET /api/applications ---------------------- *)
\* The rows a response carries, each by its id and its owner.
Returned(ids) == {[id |-> a, userId |-> applications[a].userId] : a \in ids}

\* The where clause of the single-row read.
GetWhere(id, userId) == ApplicationOwned(id, userId)

GetApplicationOf(r, q) ==
    /\ Free(r)
    /\ IF ~GetWhere(q.id, q.user)
         THEN Reply(r, q, 404, "Application not found", {})
         ELSE Reply(r, q, 200, "", Returned({q.id}))
    /\ UNCHANGED <<db, probe, page>>

GetApplication(r) == \E q \in Requests("app_get") : GetApplicationOf(r, q)

\* A list read without the userId filter.
ListWhereAnyOwner(id, userId) == TRUE

\* where = { userId: req.user.id } of the list read
ListWhere(id, userId) == applications[id].userId = userId

ListApplicationsOf(r, q) ==
    /\ Free(r)
    /\ Reply(r, q, 200, "",
             Returned({a \in DOMAIN applications : ListWhere(a, q.user)}))
    /\ UNCHANGED <<db, probe, page>>

ListApplications(r) == \E q \in Requests("app_list") : ListApplicationsOf(r, q)

(* ------------------------- POST /api/companies ------------------------ *)
CompanyNameTaken(name, userId) ==
    \E c \in DOMAIN companies :
        companies[c].name = name /\ companies[c].userId = userId

\* Request q arrives; validation, then the duplicate-name lookup.
CompanyFindExistingOf(r, q) ==
    /\ Free(r)
    /\ nextCompanyId + Cardinality(Pending({"company_post"})) <= MaxCompanies
    /\ IF q.body.name = None
         THEN Reply(r, q, 400, "Validation failed", {})
         ELSE IF CompanyNameTaken(q.body.name, q.user)
                THEN Reply(r, q, 400, "Company with this name already exists", {})
                ELSE Await(r, q, "company_create", NoRow, NoApplication)
    /\ UNCHANGED <<db, probe, page>>

CompanyFindExisting(r) ==
    \E q \in Requests("company_post") : CompanyFindExistingOf(r, q)

\* prisma.company.create; Company_userId_name_key rejects a duplicate.
CompanyCreate(r) ==
    /\ reqs[r].op = "company_post" /\ reqs[r].pc = "company_create"
    /\ nextCompanyId' = nextCompanyId + 1
    /\ IF CompanyNameTaken(reqs[r].body.name, reqs[r].user)
         THEN /\ Fail(r, reqs[r])
              /\ UNCHANGED companies
         ELSE /\ companies' = companies @@
                    (nextCompanyId :>
                        [userId |-> reqs[r].user, name |-> reqs[r].body.name])
              /\ Reply(r, reqs[r], 201, "Company created successfully", {})
    /\ UNCHANGED <<applications, statusHistory, nextApplicationId, linked, probe, page>>

(* ----------------------- PUT /api/companies/:id ----------------------- *)
\* prisma.company.findFirst({ where: { name, userId, id: { not: companyId } } })
CompanyNameTakenByOther(name, userId, companyId) ==
    \E c \in DOMAIN companies \ {companyId} :
        companies[c].name = name /\ companies[c].userId = userId

\* Request q arrives; validation, the ownership lookup, and the branch on
\* validatedData.name && validatedData.name !== existingCompany.name.
CompanyPutFindExistingOf(r, q) ==
    /\ Free(r)
    /\ IF ~CompanyOwned(q.id, q.user)
         THEN Reply(r, q, 404, "Company not found", {})
         ELSE Await(r, q,
                    IF q.body.name # None /\ q.body.name # companies[q.id].name
                      THEN "company_put_duplicate" ELSE "company_put_update",
                    NoRow, NoApplication)
    /\ UNCHANGED <<db, probe, page>>

\* The duplicate-name lookup of a rename.
CompanyPutFindDuplicate(r) ==
    /\ reqs[r].op = "company_put" /\ reqs[r].pc = "company_put_duplicate"
    /\ IF CompanyNameTakenByOther(reqs[r].body.name, reqs[r].user, reqs[r].id)
         THEN Reply(r, reqs[r], 400, "Company with this name already exists", {})
         ELSE Await(r, reqs[r], "company_put_update", NoRow, NoApplication)
    /\ UNCHANGED <<db, probe, page>>

\* prisma.company.update({ where: { id } }): fails when the row is gone, and
\* on Company_userId_name_key when the new name is another company's.
CompanyPutUpdate(r) ==
    /\ reqs[r].op = "company_put" /\ reqs[r].pc = "company_put_update"
    /\ LET id == reqs[r].id
           name == reqs[r].body.name
       IN IF \/ id \notin DOMAIN companies
             \/ /\ name # None
                /\ \E c \in DOMAIN companies \ {id} :
                      /\ companies[c].name = name
                      /\ companies[c].userId = companies[id].userId
            THEN /\ Fail(r, reqs[r])
                 /\ UNCHANGED companies
            ELSE /\ companies' = [companies EXCEPT ![id].name =
                                     IF name # None THEN name ELSE @]
                 /\ Reply(r, reqs[r], 200, "Company updated successfully", {})
    /\ UNCHANGED <<applications, statusHistory, nextCompanyId, nextApplicationId,
                   linked, probe, page>>

(* ---------------------- DELETE /api/companies/:id --------------------- *)
\* company._count.applications
CountApplications(companyId) ==
    Cardinality({a \in DOMAIN applications : applications[a].companyId = companyId})

\* Request q arrives; the ownership lookup with the application count.
CompanyDeleteFindOf(r, q) ==
    /\ Free(r)
    /\ IF ~CompanyOwned(q.id, q.user)
         THEN Reply(r, q, 404, "Company not found", {})
         ELSE IF CountApplications(q.id) > 0
                THEN Reply(r, q, 400, "Cannot delete company with applications", {})
                ELSE Await(r, q, "company_delete", NoRow, NoApplication)
    /\ UNCHANGED <<db, probe, page>>

\* A foreign key that removes nothing with the company.
ApplicationsOfNoCascade(companyId) == {}

\* The applications of a company.
ApplicationsOf(companyId) ==
    {a \in DOMAIN applications : applications[a].companyId = companyId}

\* prisma.company.delete({ where: { id } }); Application_companyId_fkey is ON
\* DELETE CASCADE, and so are the foreign keys on the applications removed.
CompanyDelete(r) ==
    /\ reqs[r].op = "company_delete" /\ reqs[r].pc = "company_delete"
    /\ LET id == reqs[r].id
           gone == ApplicationsOf(id)
       IN IF id \notin DOMAIN companies
            THEN /\ Fail(r, reqs[r])
                 /\ UNCHANGED <<companies, applications, statusHistory,
                                interviews, tasks, documents>>
            ELSE /\ companies' = [c \in DOMAIN companies \ {id} |-> companies[c]]
                 /\ applications' =
                       [a \in DOMAIN applications \ gone |-> applications[a]]
                 /\ statusHistory' =
                       [a \in AppIds |-> IF a \in gone THEN <<>> ELSE statusHistory[a]]
                 /\ interviews' =
                       [k \in {x \in DOMAIN interviews :
                                 interviews[x].applicationId \notin gone} |-> interviews[k]]
                 /\ tasks' =
                       [k \in {x \in DOMAIN tasks :
                                 tasks[x].applicationId \notin gone} |-> tasks[k]]
                 /\ documents' =
                       [k \in {x \in DOMAIN documents :
                                 documents[x].applicationId \notin gone} |-> documents[k]]
                 /\ Reply(r, reqs[r], 200, "Company deleted successfully", {})
    /\ UNCHANGED <<nextCompanyId, nextApplicationId, nextInterviewId,
                   nextDocumentId, probe, page>>

(* ------------------------- POST /api/interviews ----------------------- *)
\* createInterviewSchema.parse(req.body)
InterviewSchemaOk(body) ==
    body.applicationId # NoId /\ body.type \in DOMAIN InterviewTypeMapping

\* Request q arrives; validation, then the ownership lookup of the application.
InterviewFindApplicationOf(r, q) ==
    /\ Free(r)
    /\ nextInterviewId + Cardinality(Pending({"interview_post"})) <= MaxInterviews
    /\ IF ~InterviewSchemaOk(q.body)
         THEN Reply(r, q, 400, "Validation failed", {})
         ELSE IF ~ApplicationOwned(q.body.applicationId, q.user)
                THEN Reply(r, q, 400, "Application not found or does not belong to user", {})
                ELSE Await(r, q, "interview_create", NoRow, NoApplication)
    /\ UNCHANGED <<db, probe, page>>

\* prisma.interview.create: fails on Interview_applicationId_fkey when the
\* application row is gone.
InterviewCreate(r) ==
    /\ reqs[r].op = "interview_post" /\ reqs[r].pc = "interview_create"
    /\ nextInterviewId' = nextInterviewId + 1
    /\ IF reqs[r].body.applicationId \notin DOMAIN applications
         THEN /\ Fail(r, reqs[r])
              /\ UNCHANGED interviews
         ELSE /\ interviews' = interviews @@
                    (nextInterviewId :>
                        [applicationId |-> reqs[r].body.applicationId,
                         type |-> mapInterviewType(reqs[r].body.type)])
              /\ Reply(r, reqs[r], 201, "Interview created successfully", {})
    /\ UNCHANGED <<companies, applications, statusHistory, nextCompanyId,
                   nextApplicationId, tasks, documents, nextDocumentId, probe, page>>

(* ----------------------------- /api/documents ------------------------- *)
\* prisma.document.findFirst({ where: { id, userId } })
DocumentOwned(documentId, userId) ==
    documentId \in DOMAIN documents /\ documents[documentId].userId = userId

\* POST /api/documents: request q arrives with its file; prisma.document.create
\* fails on Document_applicationId_fkey when the payload names no application.
DocumentCreateOf(r, q) ==
    /\ Free(r)
    /\ nextDocumentId <= MaxDocuments
    /\ nextDocumentId' = nextDocumentId + 1
    /\ IF q.body.applicationId # NoId /\ q.body.applicationId \notin DOMAIN applications
         THEN /\ Fail(r, q)
              /\ UNCHANGED documents
         ELSE /\ documents' = documents @@
                    (nextDocumentId :>
                        [userId |-> q.user, applicationId |-> q.body.applicationId])
              /\ Reply(r, q, 201, "", {})
    /\ UNCHANGED <<companies, applications, statusHistory, nextCompanyId,
                   nextApplicationId, interviews, tasks, nextInterviewId, probe, page>>

\* PATCH /api/documents/:id: request q arrives; the ownership lookup.
DocumentFindExistingOf(r, q) ==
    /\ Free(r)
    /\ IF ~DocumentOwned(q.id, q.user)
         THEN Reply(r, q, 404, "Document not found", {})
         ELSE Await(r, q, "document_update", NoRow, NoApplication)
    /\ UNCHANGED <<db, probe, page>>

\* prisma.document.update({ where: { id }, data: updateData }): fails when the
\* document is gone or the new applicationId has no row.
DocumentUpdate(r) ==
    /\ reqs[r].op = "document_patch" /\ reqs[r].pc = "document_update"
    /\ LET id == reqs[r].id
           applicationId == reqs[r].body.applicationId
       IN IF \/ id \notin DOMAIN documents
             \/ (applicationId # NoId /\ applicationId \notin DOMAIN applications)
            THEN /\ Fail(r, reqs[r])
                 /\ UNCHANGED documents
            ELSE /\ documents' = [documents EXCEPT ![id].applicationId =
                                     IF applicationId # NoId THEN applicationId ELSE @]
                 /\ Reply(r, reqs[r], 200, "", {})
    /\ UNCHANGED <<companies, applications, statusHistory, nextCompanyId,
                   nextApplicationId, interviews, tasks, nextInterviewId,
                   nextDocumentId, probe, page>>

(* --------------------------- authenticateToken ------------------------ *)
\* The id of a user whose User row is gone.
GoneUser == 3

\* What the Authorization header carries: nothing, a string that is no JWT of
\* this server, or a JWT signed with JWT_SECRET, expired or not.
Tokens ==
    [kind : {"none", "malformed"}, userId : {0}]
        \cup [kind : {"expired", "signed"}, userId : Users \cup {GoneUser}]

\* A verification that does not look at the expiry.
JwtVerifyIgnoringExpiry(token) ==
    IF token.kind \in {"signed", "expired"} THEN "decoded" ELSE "JsonWebTokenError"

\* jwt.verify(token, jwtSecret): the payload, or the error thrown.
JwtVerify(token) ==
    CASE token.kind = "signed" -> "decoded"
      [] token.kind = "expired" -> "TokenExpiredError"
      [] OTHER -> "JsonWebTokenError"

\* error instanceof jwt.JsonWebTokenError (TokenExpiredError extends it).
InstanceOfJsonWebTokenError(error) ==
    error \in {"JsonWebTokenError", "TokenExpiredError"}

\* process.env.JWT_SECRET: generateToken signs no token without it.
JwtSecretSet == TRUE

\* prisma.user.findUnique({ where: { id: decoded.userId } })
UserFound(userId) == userId \in Users

\* The response of the middleware, or code 0 when it calls next().
AuthResponse(token) ==
    IF token.kind = "none"
      THEN [code |-> 401, message |-> "Access token required"]
      ELSE IF ~JwtSecretSet
        THEN [code |-> 500, message |-> "Server configuration error"]
        ELSE IF JwtVerify(token) # "decoded"
          THEN IF InstanceOfJsonWebTokenError(JwtVerify(token))
                 THEN [code |-> 401, message |-> "Invalid token"]
                 ELSE [code |-> 401, message |-> "Token expired"]
          ELSE IF ~UserFound(token.userId)
            THEN [code |-> 401, message |-> "User not found"]
            ELSE [code |-> 0, message |-> ""]

\* The route handler next() runs, to its first awaited call.
Route(r, q) ==
    \/ q.op = "company_post" /\ CompanyFindExistingOf(r, q)
    \/ q.op = "app_post" /\ PostFindCompanyOf(r, q)
    \/ q.op = "app_delete" /\ DeleteFindOf(r, q)
    \/ q.op = "app_list" /\ ListApplicationsOf(r, q)
    \/ q.op = "document_post" /\ DocumentCreateOf(r, q)

\* router.use(authenticateToken): request q arrives with a token. The User
\* table does not change, so the user lookup is taken with the handler's
\* first step.
authenticateToken(r, q, token) ==
    /\ Free(r)
    /\ IF AuthResponse(token).code # 0
         THEN /\ Reply(r, q, AuthResponse(token).code, AuthResponse(token).message, {})
              /\ UNCHANGED <<db, probe, page>>
         ELSE Route(r, [q EXCEPT !.user = token.userId])

\* The requests on the wire: no user is known before the token is read.
Unauthenticated(op) ==
    CASE op = "company_post" ->
            [op : {op}, user : {0}, id : {NoId},
             body : {[NoBody EXCEPT !.name = n] : n \in CompanyNames}]
      [] op = "app_post" ->
            [op : {op}, user : {0}, id : {NoId},
             body : {[NoBody EXCEPT !.companyId = c, !.positionTitle = "Engineer"] :
                        c \in CompanyIds}]
      [] op = "app_delete" ->
            [op : {op}, user : {0}, id : AppIds, body : {NoBody}]
      [] op = "app_list" ->
            [op : {op}, user : {0}, id : {NoId}, body : {NoBody}]
      [] op = "document_post" ->
            [op : {op}, user : {0}, id : {NoId},
             body : {[NoBody EXCEPT !.applicationId = a] : a \in {NoId} \cup AppIds}]

AuthCompanyPost(r) ==
    \E q \in Unauthenticated("company_post"), t \in Tokens : authenticateToken(r, q, t)

AuthPost(r) ==
    \E q \in Unauthenticated("app_post"), t \in Tokens : authenticateToken(r, q, t)

AuthDelete(r) ==
    \E q \in Unauthenticated("app_delete"), t \in Tokens : authenticateToken(r, q, t)

AuthList(r) ==
    \E q \in Unauthenticated("app_list"), t \in Tokens : authenticateToken(r, q, t)

AuthDocumentPost(r) ==
    \E q \in Unauthenticated("document_post"), t \in Tokens : authenticateToken(r, q, t)

AuthNext ==
    \E r \in ReqIds :
        \/ AuthCompanyPost(r)
        \/ CompanyCreate(r)
        \/ AuthPost(r)
        \/ PostCreate(r)
        \/ PostHistory(r)
        \/ AuthDelete(r)
        \/ DeleteApplication(r)
        \/ AuthList(r)
        \/ AuthDocumentPost(r)

AuthSpec == Init /\ [][AuthNext]_vars

(* -------------------- one client, every field varying ----------------- *)
\* The companies of user 1 (two earlier POST /api/companies).
FieldCompanies ==
    (1 :> [userId |-> 1, name |-> "acme"]) @@ (2 :> [userId |-> 1, name |-> "initech"])

\* Payloads of POST /api/applications that vary the four defaulted fields:
\* absent, a presentation value, and a value the schema's enum does not list.
FieldPostBodies ==
    [companyId : {1}, positionTitle : {"Engineer"}, name : {None},
     status : {None, "interviewed"},
     priority : {None, "high", "urgent"},
     employmentType : {None, "part-time", "full_time"},
     workType : {None, "on-site"},
     location : {None}, applicationId : {NoId}, type : {None},
     ids : {<<>>}]

\* Payloads of PUT /api/applications/:id: every subset of the fields.
FieldPutBodies ==
    [companyId : {NoId, 2}, positionTitle : {None, "Senior Engineer"}, name : {None},
     status : {None, "offer"},
     priority : {None, "low", "urgent"},
     employmentType : {None, "full-time"},
     workType : {None, "hybrid", "on-site"},
     location : {None, "Berlin"}, applicationId : {NoId}, type : {None},
     ids : {<<>>}]

FieldRequests(op) ==
    CASE op = "app_post" ->
            [op : {op}, user : {1}, id : {NoId}, body : FieldPostBodies]
      [] op = "app_put" ->
            [op : {op}, user : {1}, id : AppIds, body : FieldPutBodies]

\* The client waits for a response before it sends the next request.
OneAtATime == Cardinality({s \in ReqIds : InFlight(s)}) < MaxFieldReq

FieldPost(r) ==
    OneAtATime /\ \E q \in FieldRequests("app_post") : PostFindCompanyOf(r, q)

FieldPut(r) ==
    OneAtATime /\ \E q \in FieldRequests("app_put") : PutFindExistingOf(r, q)

FieldInit ==
    /\ companies = FieldCompanies
    /\ applications = <<>>
    /\ statusHistory = [a \in AppIds |-> <<>>]
    /\ nextCompanyId = 3
    /\ nextApplicationId = 1
    /\ interviews = <<>>
    /\ tasks = <<>>
    /\ documents = <<>>
    /\ nextInterviewId = 1
    /\ nextDocumentId = 1
    /\ reqs = [r \in ReqIds |-> IdleReq]
    /\ response = NoResponse
    /\ probe = NoProbe
    /\ page = NoPage

FieldNext ==
    \E r \in ReqIds :
        \/ FieldPost(r)
        \/ PostCreate(r)
        \/ PostHistory(r)
        \/ FieldPut(r)
        \/ PutFindCompany(r)
        \/ PutUpdate(r)
        \/ PutHistory(r)

\* Creation and update of one user's application with every field varying.
FieldSpec == FieldInit /\ [][FieldNext]_vars

(* -------------- an application and the rows that reference it --------- *)
\* The requests of user 1 about one application, its interviews and documents.
CascadeRequests(op) ==
    CASE op = "app_post" ->
            [op : {op}, user : {1}, id : {NoId},
             body : {[NoBody EXCEPT !.companyId = 1, !.positionTitle = "Engineer"]}]
      [] op = "app_put" ->
            [op : {op}, user : {1}, id : AppIds,
             body : {[NoBody EXCEPT !.status = st] : st \in {None, "offer"}}]
      [] op = "app_delete" ->
            [op : {op}, user : {1}, id : AppIds, body : {NoBody}]
      [] op = "interview_post" ->
            [op : {op}, user : {1}, id : {NoId},
             body : {[NoBody EXCEPT !.applicationId = a, !.type = "in-person"] :
                        a \in AppIds}]
      [] op = "document_post" ->
            [op : {op}, user : {1}, id : {NoId},
             body : {[NoBody EXCEPT !.applicationId = a] : a \in {NoId} \cup AppIds}]
      [] op = "document_patch" ->
            [op : {op}, user : {1}, id : DocumentIds,
             body : {[NoBody EXCEPT !.applicationId = a] : a \in {NoId} \cup AppIds}]

CascadePost(r) == \E q \in CascadeRequests("app_post") : PostFindCompanyOf(r, q)

CascadePut(r) == \E q \in CascadeRequests("app_put") : PutFindExistingOf(r, q)

CascadeDelete(r) == \E q \in CascadeRequests("app_delete") : DeleteFindOf(r, q)

InterviewFindApplication(r) ==
    \E q \in CascadeRequests("interview_post") : InterviewFindApplicationOf(r, q)

DocumentCreate(r) ==
    \E q \in CascadeRequests("document_post") : DocumentCreateOf(r, q)

DocumentFindExisting(r) ==
    \E q \in CascadeRequests("document_patch") : DocumentFindExistingOf(r, q)

CascadeNext ==
    \E r \in ReqIds :
        \/ CascadePost(r)
        \/ PostCreate(r)
        \/ PostHistory(r)
        \/ CascadePut(r)
        \/ PutUpdate(r)
        \/ PutHistory(r)
        \/ CascadeDelete(r)
        \/ DeleteApplication(r)
        \/ InterviewFindApplication(r)
        \/ InterviewCreate(r)
        \/ DocumentCreate(r)
        \/ DocumentFindExisting(r)
        \/ DocumentUpdate(r)

\* Creation, update and deletion of an application interleaved with the
\* creation of its interviews and the linking of documents to it, from the
\* state in which user 1 has companies and no application yet.
CascadeSpec == FieldInit /\ [][CascadeNext]_vars

(* ------------------ companies and the applications at them ------------ *)
CompanySpecNames == {"acme", "initech"}

\* Two users create, rename and delete companies, and create and move
\* applications among them.
CompanyRequests(op) ==
    CASE op = "company_post" ->
            [op : {op}, user : Users, id : {NoId},
             body : {[NoBody EXCEPT !.name = n] : n \in CompanySpecNames}]
      [] op = "company_put" ->
            [op : {op}, user : Users, id : CompanyIds,
             body : {[NoBody EXCEPT !.name = n] : n \in CompanySpecNames}]
      [] op = "company_delete" ->
            [op : {op}, user : Users, id : CompanyIds, body : {NoBody}]
      [] op = "app_post" ->
            [op : {op}, user : Users, id : {NoId},
             body : {[NoBody EXCEPT !.companyId = c, !.positionTitle = "Engineer"] :
                        c \in CompanyIds}]
      [] op = "app_put" ->
            [op : {op}, user : Users, id : AppIds,
             body : {[NoBody EXCEPT !.companyId = c] : c \in CompanyIds}]

CompanySpecCreate(r) ==
    \E q \in CompanyRequests("company_post") : CompanyFindExistingOf(r, q)

CompanyPutFindExisting(r) ==
    \E q \in CompanyRequests("company_put") : CompanyPutFindExistingOf(r, q)

CompanyDeleteFind(r) ==
    \E q \in CompanyRequests("company_delete") : CompanyDeleteFindOf(r, q)

CompanySpecPost(r) ==
    \E q \in CompanyRequests("app_post") : PostFindCompanyOf(r, q)

CompanySpecPut(r) ==
    \E q \in CompanyRequests("app_put") : PutFindExistingOf(r, q)

CompanyNext ==
    \E r \in ReqIds :
        \/ CompanySpecCreate(r)
        \/ CompanyCreate(r)
        \/ CompanyPutFindExisting(r)
        \/ CompanyPutFindDuplicate(r)
        \/ CompanyPutUpdate(r)
        \/ CompanyDeleteFind(r)
        \/ CompanyDelete(r)
        \/ CompanySpecPost(r)
        \/ PostCreate(r)
        \/ PostHistory(r)
        \/ CompanySpecPut(r)
        \/ PutFindCompany(r)
        \/ PutUpdate(r)

CompanySpec == Init /\ [][CompanyNext]_vars

(* --------------- the detail page and the edit form ------------------- *)
\* The applications the add form's user has created: every enum field in
\* both of its spellings' classes, and a title that is blank.
PagePostBodies ==
    [companyId : {1}, positionTitle : {"Engineer", " "}, name : {None},
     status : {None, "interviewed"},
     priority : {None, "high"},
     employmentType : {None, "contract", "part-time"},
     workType : {None, "hybrid", "on-site"},
     location : {None}, applicationId : {NoId}, type : {None},
     ids : {<<>>}]

\* The statuses the model picks in the status select of the detail page.
PageStatuses == {"applied", "offer", "rejected"}

PagePost(r) ==
    /\ OneAtATime
    /\ page.view = "none"
    /\ \E q \in [op : {"app_post"}, user : {1}, id : {NoId}, body : PagePostBodies] :
          PostFindCompanyOf(r, q)

\* The user navigates to /applications/:id or /applications/:id/edit.
OpenPage ==
    /\ page.view \in {"none", "error", "saved"}
    /\ \A r \in ReqIds : ~InFlight(r)
    /\ response.op # "app_get"
    /\ \E id \in AppIds, view \in {"detail_loading", "edit_loading"} :
          page' = [NoPage EXCEPT !.view = view, !.id = id]
    /\ UNCHANGED <<db, reqs, response, probe>>

\* apiClient.get(`/applications/${id}`) of either page.
PageGet(r) ==
    /\ \A s \in ReqIds : ~InFlight(s)
    /\ page.view \in {"detail_loading", "edit_loading", "refreshing"}
    /\ response.op # "app_get"
    /\ GetApplicationOf(r, [op |-> "app_get", user |-> 1, id |-> page.id,
                            body |-> NoBody])

\* statusHistory: { orderBy: { createdAt: 'desc' } }
NewestFirst(h) == [i \in 1..Len(h) |-> h[Len(h) + 1 - i]]

\* setApplication(appData) of the detail page, or setError.
setApplication ==
    /\ page.view \in {"detail_loading", "refreshing"}
    /\ response.op = "app_get"
    /\ page' = IF response.code = 200
                 THEN [page EXCEPT
                         !.view = "detail",
                         !.application = applications[page.id],
                         !.statusHistory = NewestFirst(statusHistory[page.id]),
                         !.newStatus = IF page.view = "refreshing" THEN @
                                       ELSE applications[page.id].status]
                 ELSE [page EXCEPT !.view = "error"]
    /\ UNCHANGED <<db, reqs, response, probe>>

\* The user picks a status and presses the button: handleStatusUpdate starts
\* unless the status picked is the one shown.
handleStatusUpdate ==
    /\ page.view = "detail"
    /\ \E newStatus \in PageStatuses \ {page.application.status} :
          page' = [page EXCEPT !.view = "updating", !.newStatus = newStatus]
    /\ UNCHANGED <<db, reqs, response, probe>>

\* { ...application, status: newStatus, companyId: application.company.id }
StatusUpdateBody ==
    [NoBody EXCEPT
        !.companyId = page.application.companyId,
        !.status = page.newStatus,
        !.positionTitle = page.application.positionTitle,
        !.priority = page.application.priority,
        !.employmentType = page.application.employmentType,
        !.workType = page.application.workType,
        !.location = page.application.location]

\* apiClient.put(`/applications/${id}`, ...) of the detail page.
DetailPut(r) ==
    /\ \A s \in ReqIds : ~InFlight(s)
    /\ page.view = "updating"
    /\ response.op # "app_put"
    /\ PutFindExistingOf(r, [op |-> "app_put", user |-> 1, id |-> page.id,
                             body |-> StatusUpdateBody])

\* The PUT of the detail page is answered: refresh, or setError.
StatusUpdateAnswered ==
    /\ page.view = "updating"
    /\ \A r \in ReqIds : ~InFlight(r)
    /\ response.op = "app_put"
    /\ page' = [page EXCEPT !.view = IF response.code = 200 THEN "refreshing"
                                                            ELSE "error"]
    /\ UNCHANGED <<db, reqs, response, probe>>

\* String.prototype.trim on the titles of the model.
Trim(s) == IF s = " " THEN "" ELSE s

\* The argument of setFormData in fetchData.
FormData(application) ==
    [NoBody EXCEPT
        !.companyId = application.companyId,
        !.positionTitle = application.positionTitle,
        !.status = reverseMapStatus(application.status),
        !.priority = reverseMapPriority(application.priority),
        !.employmentType = reverseMapEmploymentType(application.employmentType),
        !.workType = reverseMapWorkType(application.workType),
        !.location = IF application.location \in {Null, ""} THEN ""
                     ELSE application.location]

\* fetchData of the edit form: setFormData, or setError.
setFormData ==
    /\ page.view = "edit_loading"
    /\ response.op = "app_get"
    /\ page' = IF response.code = 200
                 THEN [page EXCEPT
                         !.view = "edit",
                         !.application = applications[page.id],
                         !.statusHistory = NewestFirst(statusHistory[page.id]),
                         !.formData = FormData(applications[page.id])]
                 ELSE [page EXCEPT !.view = "error"]
    /\ UNCHANGED <<db, reqs, response, probe>>

\* handleSubmit up to the request: the required-field checks.
handleSubmit ==
    /\ page.view = "edit"
    /\ page' = [page EXCEPT
                  !.view = IF Trim(page.formData.positionTitle) = ""
                              \/ page.formData.companyId = NoId
                             THEN "invalid" ELSE "saving"]
    /\ UNCHANGED <<db, reqs, response, probe>>

\* updateData of handleSubmit
SubmitBody ==
    [NoBody EXCEPT
        !.companyId = page.formData.companyId,
        !.positionTitle = Trim(page.formData.positionTitle),
        !.status = page.formData.status,
        !.priority = page.formData.priority,
        !.employmentType = page.formData.employmentType,
        !.workType = page.formData.workType,
        !.location = IF Trim(page.formData.location) = "" THEN Null
                     ELSE Trim(page.formData.location)]

\* apiClient.put(`/applications/${id}`, updateData) of the edit form.
EditPut(r) ==
    /\ \A s \in ReqIds : ~InFlight(s)
    /\ page.view = "saving"
    /\ response.op # "app_put"
    /\ PutFindExistingOf(r, [op |-> "app_put", user |-> 1, id |-> page.id,
                             body |-> SubmitBody])

\* The PUT of the edit form is answered: setSuccess, or setError.
SubmitAnswered ==
    /\ page.view = "saving"
    /\ \A r \in ReqIds : ~InFlight(r)
    /\ response.op = "app_put"
    /\ page' = [page EXCEPT !.view = IF response.code = 200 THEN "saved"
                                                            ELSE "error"]
    /\ UNCHANGED <<db, reqs, response, probe>>

PageNext ==
    \/ OpenPage
    \/ setApplication
    \/ handleStatusUpdate
    \/ StatusUpdateAnswered
    \/ setFormData
    \/ handleSubmit
    \/ SubmitAnswered
    \/ \E r \in ReqIds :
          \/ PagePost(r)
          \/ PostCreate(r)
          \/ PostHistory(r)
          \/ PageGet(r)
          \/ DetailPut(r)
          \/ EditPut(r)
          \/ PutFindCompany(r)
          \/ PutUpdate(r)
          \/ PutHistory(r)

PageSpec == FieldInit /\ [][PageNext]_vars

(* ------------------- DELETE /api/applications/bulk -------------------- *)
\* The rows prisma.application.findMany / deleteMany select:
\* where: { id: { in: ids }, userId }
BulkWhere(ids, userId) ==
    {a \in DOMAIN applications :
        (\E i \in 1..Len(ids) : ids[i] = a) /\ applications[a].userId = userId}

\* The bulk handler, request q arriving: the ids check and findMany.
BulkFindManyOf(r, q) ==
    /\ Free(r)
    /\ IF q.body.ids = <<>>
         THEN Reply(r, q, 400, "Invalid or empty IDs array", {})
         ELSE IF Cardinality(BulkWhere(q.body.ids, q.user)) # Len(q.body.ids)
                THEN Reply(r, q, 400,
                           "Some applications not found or do not belong to user", {})
                ELSE Await(r, q, "bulk_delete_many", NoRow, NoApplication)
    /\ UNCHANGED <<db, probe, page>>

\* prisma.application.deleteMany, with the cascades of every row deleted.
BulkDeleteMany(r) ==
    /\ reqs[r].op = "app_bulk_delete" /\ reqs[r].pc = "bulk_delete_many"
    /\ LET gone == BulkWhere(reqs[r].body.ids, reqs[r].user)
       IN /\ applications' = [a \in DOMAIN applications \ gone |-> applications[a]]
          /\ statusHistory' =
                [a \in AppIds |-> IF a \in gone THEN <<>> ELSE statusHistory[a]]
          /\ interviews' =
                [k \in {x \in DOMAIN interviews :
                          interviews[x].applicationId \notin gone} |-> interviews[k]]
          /\ tasks' =
                [k \in {x \in DOMAIN tasks :
                          tasks[x].applicationId \notin gone} |-> tasks[k]]
          /\ documents' =
                [k \in {x \in DOMAIN documents :
                          documents[x].applicationId \notin gone} |-> documents[k]]
          /\ Reply(r, reqs[r], 200, "applications deleted successfully",
                   {[deletedCount |-> Cardinality(gone)]})
    /\ UNCHANGED <<companies, nextCompanyId, nextApplicationId, nextInterviewId,
                   nextDocumentId, probe, page>>

\* The DELETE routes of the applications router, in registration order.
DeleteRoutes == <<"/:id", "/bulk">>

\* Does the route pattern match a path of one segment?
RouteMatches(route, path) == route = "/:id" \/ route = "/" \o path

\* Express hands the request to the first registered route that matches.
Dispatch(path) ==
    DeleteRoutes[CHOOSE i \in 1..Len(DeleteRoutes) :
                    /\ RouteMatches(DeleteRoutes[i], path)
                    /\ \A j \in 1..(i - 1) : ~RouteMatches(DeleteRoutes[j], path)]

\* The path segments a client sends after /api/applications/.
DeletePaths == {ToString(a) : a \in AppIds} \cup {"bulk"}

\* isNaN(parseInt(req.params.id))
IsNaN(path) == \A a \in AppIds : ToString(a) # path

\* parseInt(req.params.id)
ParseInt(path) == CHOOSE a \in AppIds : ToString(a) = path

\* The ids arrays of the model.
BulkIds == {<<>>} \cup {<<a>> : a \in AppIds}

\* DELETE /api/applications/<path> with a JSON body arrives.
DeleteDispatchOf(r, q, path) ==
    IF Dispatch(path) = "/bulk"
      THEN BulkFindManyOf(r, [q EXCEPT !.op = "app_bulk_delete"])
      ELSE IF IsNaN(path)
        THEN /\ Free(r)
             /\ Reply(r, q, 400, "Invalid application ID", {})
             /\ UNCHANGED <<db, probe, page>>
        ELSE DeleteFindOf(r, [q EXCEPT !.id = ParseInt(path)])

\* The DELETE requests of both users, with and without ids.
DeleteTraffic ==
    [op : {"app_delete"}, user : Users, id : {NoId},
     body : {[NoBody EXCEPT !.ids = ids] : ids \in BulkIds}]

DeleteDispatch(r) ==
    \E q \in DeleteTraffic, path \in DeletePaths : DeleteDispatchOf(r, q, path)

BulkNext ==
    \E r \in ReqIds :
        \/ CascadePost(r)
        \/ PostCreate(r)
        \/ PostHistory(r)
        \/ CascadePut(r)
        \/ PutUpdate(r)
        \/ PutHistory(r)
        \/ DeleteDispatch(r)
        \/ DeleteApplication(r)

BulkSpec == FieldInit /\ [][BulkNext]_vars

(* ------------------ documents of two users ---------------------------- *)
\* Both users upload documents and link them; user 1 creates applications.
DocumentRequests(op) ==
    CASE op = "document_post" ->
            [op : {op}, user : Users, id : {NoId},
             body : {[NoBody EXCEPT !.applicationId = a] : a \in {NoId} \cup AppIds}]
      [] op = "document_patch" ->
            [op : {op}, user : Users, id : DocumentIds,
             body : {[NoBody EXCEPT !.applicationId = a] : a \in AppIds}]

DocumentUpload(r) ==
    \E q \in DocumentRequests("document_post") : DocumentCreateOf(r, q)

DocumentLink(r) ==
    \E q \in DocumentRequests("document_patch") : DocumentFindExistingOf(r, q)

DocumentNext ==
    \E r \in ReqIds :
        \/ CascadePost(r)
        \/ PostCreate(r)
        \/ PostHistory(r)
        \/ DocumentUpload(r)
        \/ DocumentLink(r)
        \/ DocumentUpdate(r)

DocumentSpec == FieldInit /\ [][DocumentNext]_vars

(* ------------------------- the field mappers alone -------------------- *)
\* Strings handed to a mapper: every presentation and storage spelling of
\* every field, absent and empty values, and strings no table lists.
MapperInputs ==
    UNION {DOMAIN MappingOf(f) \cup StorageVocabulary(f) : f \in MapperFields}
        \cup {None, "", "bogus", "constructor", "__proto__"}

\* A value arrives from a client, or is read from a column of a row.
MapperInit ==
    /\ companies = <<>>
    /\ applications = <<>>
    /\ statusHistory = [a \in AppIds |-> <<>>]
    /\ nextCompanyId = 1
    /\ nextApplicationId = 1
    /\ interviews = <<>>
    /\ tasks = <<>>
    /\ documents = <<>>
    /\ nextInterviewId = 1
    /\ nextDocumentId = 1
    /\ reqs = [r \in ReqIds |-> IdleReq]
    /\ response = NoResponse
    /\ page = NoPage
    /\ probe \in
          {[NoProbe EXCEPT !.field = f, !.stage = "input", !.value = v] :
              f \in MapperFields, v \in MapperInputs}
          \cup
          {[NoProbe EXCEPT !.field = f[1], !.stage = "row", !.value = f[2]] :
              f \in {g \in MapperFields \X MapperInputs :
                        g[2] \in StorageVocabulary(g[1])}}

\* The backend maps the value it received (from a client, or from the form).
MapValue ==
    /\ probe.stage \in {"input", "form"}
    /\ probe' = [probe EXCEPT
                    !.stage = IF probe.stage = "input" THEN "stored" ELSE "restored",
                    !.value = toStorage(probe.field, probe.value),
                    !.arg = probe.value]
    /\ UNCHANGED <<db, reqs, response, page>>

\* The edit form maps back the value it loaded.
ReverseMapValue ==
    /\ probe.stage \in {"row", "stored"}
    /\ probe.field \in ReverseMapperFields
    /\ probe' = [probe EXCEPT
                    !.stage = "form",
                    !.value = toPresentation(probe.field, probe.value),
                    !.arg = probe.value,
                    !.origin = probe.value]
    /\ UNCHANGED <<db, reqs, response, page>>

MapperNext == MapValue \/ ReverseMapValue

MapperSpec == MapperInit /\ [][MapperNext]_vars

(* ------------------------------ failures ------------------------------ *)
\* The awaited database call of a suspended handler rejects (connection lost,
\* statement timeout); the catch block answers 500 and nothing is undone.
PrismaThrows(r) ==
    /\ InFlight(r)
    /\ Fail(r, reqs[r])
    /\ UNCHANGED <<db, probe, page>>

(* ------------------------------- Next --------------------------------- *)
Next ==
    \E r \in ReqIds :
        \/ PostFindCompany(r)
        \/ PostCreate(r)
        \/ PostHistory(r)
        \/ PutFindExisting(r)
        \/ PutFindCompany(r)
        \/ PutUpdate(r)
        \/ PutHistory(r)
        \/ DeleteFind(r)
        \/ DeleteApplication(r)
        \/ GetApplication(r)
        \/ ListApplications(r)
        \/ CompanyFindExisting(r)
        \/ CompanyCreate(r)

\* The routes over a database that answers every statement.
Spec == Init /\ [][Next]_vars

\* The routes over a database whose statements may also fail.
FaultNext == Next \/ \E r \in ReqIds : PrismaThrows(r)

FaultSpec == Init /\ [][FaultNext]_vars

(* ====================================================================== *)
(*                          Properties of the routes                      *)
(* ====================================================================== *)
\* null or absent, as the detail page's StatusHistory interface allows it.
IsNull(v) == v \in {Null, None}

\* Handler r takes a step.
Steps(r) == reqs'[r] # reqs[r]

\* Handler r, suspended at pc, takes the step that sends its response.
Responds(r, op, pc) ==
    reqs[r].op = op /\ reqs[r].pc = pc /\ reqs'[r].pc = "idle"

Others(r) == ReqIds \ {r}
Last(h) == h[Len(h)]

(* ---- C1 ---- *)
\* C1: an accepted PUT whose status is present and differs from the stored
\* status appends exactly one StatusHistory entry, and that entry records
\* previousStatus = the status held before the update and newStatus = the
\* requested status.
C1_StatusChangeRecordsTransition ==
    [][\A r \in ReqIds :
          (Responds(r, "app_put", "put_history") /\ response'.code = 200) =>
              LET id == reqs[r].id
                  h == statusHistory'[id]
              IN /\ Len(h) = Len(statusHistory[id]) + 1
                 /\ SubSeq(h, 1, Len(h) - 1) = statusHistory[id]
                 /\ Field(Last(h), "previousStatus") = reqs[r].existingApplication.status
                 /\ Field(Last(h), "newStatus") = reqs[r].body.status]_vars

(* ---- C2 ---- *)
\* C2: a PUT that omits status, or whose status equals the stored status the
\* handler read, never changes StatusHistory, in any of its steps and whatever
\* else the payload carries.
C2_NoStatusChangeNoHistory ==
    [][\A r \in ReqIds :
          /\ (~InFlight(r) /\ \E q \in Requests("app_put") : PutFindExistingOf(r, q))
             => statusHistory' = statusHistory
          /\ ( /\ reqs[r].op = "app_put"
               /\ Steps(r)
               /\ \/ reqs[r].body.status = None
                  \/ reqs[r].body.status = reqs[r].existingApplication.status )
             => statusHistory' = statusHistory]_vars

\* An update that kept the status was accepted, and the history holds the
\* creation entry alone.
C2_Witness ==
    /\ response.op = "app_put" /\ response.code = 200
    /\ response.id \in DOMAIN applications
    /\ Len(statusHistory[response.id]) = 1

(* ---- C3 ---- *)
\* C3: a POST answered 201 wrote exactly one StatusHistory entry, for the new
\* application, carrying the application's initial status: the payload's
\* status, or 'applied' when the payload has none; no other step of a POST
\* writes history.
C3_CreateWritesOneEntry ==
    [][\A r \in ReqIds :
          (reqs[r].op = "app_post" /\ Steps(r)) =>
              IF reqs'[r].pc = "idle" /\ response'.code = 201
                THEN \E a \in AppIds :
                        /\ response'.out = {[id |-> a, userId |-> reqs[r].user]}
                        /\ statusHistory' =
                             [statusHistory EXCEPT ![a] = Append(@,
                                [status |-> IF reqs[r].body.status = None
                                              THEN "applied"
                                              ELSE reqs[r].body.status,
                                 notes |-> "Application created"])]
                ELSE statusHistory' = statusHistory]_vars

\* A creation with an explicit status was answered 201 and its entry is there.
C3_Witness ==
    /\ response.op = "app_post" /\ response.code = 201
    /\ \E x \in response.out :
          statusHistory[x.id] =
              <<[status |-> "interviewed", notes |-> "Application created"]>>

(* ---- C4 ---- *)
\* C4: the oldest StatusHistory entry of every application has previousStatus
\* null, carries a status, and is the creation entry; every later entry has a
\* non-null previousStatus.
C4_FirstEntryIsCreation ==
    \A a \in DOMAIN applications :
        LET h == statusHistory[a] IN
        Len(h) >= 1 =>
            /\ IsNull(Field(h[1], "previousStatus"))
            /\ h[1].status \in ApplicationStatus
            /\ h[1].notes = "Application created"
            /\ \A k \in 2..Len(h) : ~IsNull(Field(h[k], "previousStatus"))

(* ---- C5 ---- *)
\* C5: the status write of a PUT and its history entry are atomic: there is
\* no state in which the handler has yet to write the entry while the status
\* it wrote is already stored.
C5_UpdateAndHistoryAtomic ==
    \A r \in ReqIds :
        (reqs[r].op = "app_put" /\ reqs[r].pc = "put_history") =>
            \/ reqs[r].id \notin DOMAIN applications
            \/ applications[reqs[r].id].status # reqs[r].application.status

(* ---- C6 ---- *)
\* C6: under any interleaving of PUTs, an update that records a transition
\* leaves the status the application holds at the moment of its write: the
\* status the handler compared with is the stored one.
C6_HistoryMatchesRealTransition ==
    [][\A r \in ReqIds :
          ( /\ reqs[r].op = "app_put" /\ reqs[r].pc = "put_update"
            /\ reqs'[r].pc = "put_history" )
          => applications[reqs[r].id].status = reqs[r].existingApplication.status]_vars

(* ---- C7 ---- *)
\* C7: create with status omitted, update to 'interviewed', update to
\* 'interviewed' again, with no other request in between: the history is
\* [{null -> applied}], then gains {applied -> interviewed} as its second
\* entry, then keeps exactly two entries.
Quiet(r) == \A s \in Others(r) : ~InFlight(s) /\ ~InFlight(s)'

C7_Scenario ==
    [][\A r \in ReqIds :
          Quiet(r) =>
          /\ ( /\ Responds(r, "app_post", "post_history")
               /\ reqs[r].body.status = None
               /\ response'.code = 201 )
             => LET a == reqs[r].application.id IN
                /\ applications'[a].status = "applied"
                /\ Len(statusHistory'[a]) = 1
                /\ IsNull(Field(statusHistory'[a][1], "previousStatus"))
                /\ statusHistory'[a][1].status = "applied"
          /\ ( /\ Responds(r, "app_put", "put_history")
               /\ reqs[r].body.status = "interviewed"
               /\ reqs[r].existingApplication.status = "applied"
               /\ Len(statusHistory[reqs[r].id]) = 1
               /\ response'.code = 200 )
             => LET h == statusHistory'[reqs[r].id] IN
                /\ Len(h) = 2
                /\ Field(h[2], "previousStatus") = "applied"
                /\ h[2].status = "interviewed"
          /\ ( /\ reqs[r].op = "app_put" /\ Steps(r)
               /\ reqs[r].body.status = "interviewed"
               /\ reqs[r].existingApplication.status = "interviewed"
               /\ Len(statusHistory[reqs[r].id]) = 2 )
             => Len(statusHistory'[reqs[r].id]) = 2]_vars

(* ---- C8 ---- *)
\* Request q names an application that exists and is another user's.
Foreign(q) == q.id \in DOMAIN applications /\ applications[q.id].userId # q.user

\* Request q names an id that has no row.
Missing(q) == q.id \notin DOMAIN applications

\* Request q to /api/applications/:id arrives and its handler takes its first step.
Asks(r, q) ==
    \/ (q.op = "app_get" /\ GetApplicationOf(r, q))
    \/ (q.op = "app_put" /\ PutFindExistingOf(r, q))
    \/ (q.op = "app_delete" /\ DeleteFindOf(r, q))

ByIdRequests == Requests("app_get") \cup Requests("app_put") \cup Requests("app_delete")

NotFound(resp) == resp.code = 404 /\ resp.message = "Application not found"

\* C8 as stated: GET, PUT and DELETE on an application the caller does not
\* own answer 404 and change nothing.
C8_ForeignApplicationNotFound ==
    [][\A r \in ReqIds : ~InFlight(r) =>
          \A q \in ByIdRequests :
              (Foreign(q) /\ Asks(r, q)) =>
                  (NotFound(response') /\ reqs' = reqs /\ UNCHANGED db)]_vars

\* C8, amended: GET, DELETE and a PUT whose body passes the schema answer 404
\* 'Application not found' for another user's application exactly as for an
\* id that does not exist; a PUT whose body fails the schema answers 400
\* 'Validation failed' before any lookup, in both cases alike; no answer is
\* 403, the handler ends with the answer, and nothing stored changes.
C8_ForeignApplicationNotFoundOrInvalid ==
    [][\A r \in ReqIds : ~InFlight(r) =>
          \A q \in ByIdRequests :
              ((Foreign(q) \/ Missing(q)) /\ Asks(r, q)) =>
                  /\ reqs' = reqs /\ UNCHANGED db
                  /\ response'.code # 403
                  /\ IF q.op = "app_put" /\ q.body.status \notin ApplicationStatus \cup {None}
                       THEN response'.code = 400 /\ response'.message = "Validation failed"
                       ELSE NotFound(response')]_vars

\* Another user's existing application was asked for and answered 404.
C8_Witness ==
    /\ response.op \in {"app_get", "app_put", "app_delete"}
    /\ NotFound(response)
    /\ response.id \in DOMAIN applications
    /\ applications[response.id].userId # response.user

(* ---- C9 ---- *)
\* What user u owns: the user's application rows and their history.
View(u) ==
    [a \in {x \in DOMAIN applications : applications[x].userId = u} |->
        <<applications[a], statusHistory[a]>>]

\* C9: GET /api/applications returns exactly the caller's rows and
\* GET /api/applications/:id only a row of the caller, and what a user owns
\* changes only in steps of that user's own requests.
C9_ReadsScopedToCaller ==
    [][/\ \A r \in ReqIds : ~InFlight(r) =>
            /\ \A q \in Requests("app_list") :
                  ListApplicationsOf(r, q) =>
                      response'.out = {[id |-> a, userId |-> q.user] : a \in DOMAIN View(q.user)}
            /\ \A q \in Requests("app_get") :
                  GetApplicationOf(r, q) =>
                      /\ response'.out \subseteq
                            {[id |-> a, userId |-> q.user] : a \in DOMAIN View(q.user)}
                      /\ response'.code = 200 <=> q.id \in DOMAIN View(q.user)
       /\ \A u \in Users :
            View(u)' # View(u) =>
                \E r \in ReqIds : reqs[r].user = u /\ Steps(r)]_vars

\* A user listed their applications and got none while another user has one.
C9_Witness ==
    /\ response.op = "app_list" /\ response.code = 200 /\ response.out = {}
    /\ \E a \in DOMAIN applications : applications[a].userId # response.user

(* ---- C10 ---- *)
\* C10: a POST whose companyId names no company of the caller is answered 400
\* at once, its handler ends there, and no row of any table is written.
C10_ForeignCompanyRejected ==
    [][\A r \in ReqIds : ~InFlight(r) =>
          \A q \in Requests("app_post") :
              ( /\ \/ q.body.companyId \notin DOMAIN companies
                   \/ companies[q.body.companyId].userId # q.user
                /\ PostFindCompanyOf(r, q) )
              => /\ response'.code = 400
                 /\ reqs' = reqs
                 /\ UNCHANGED db]_vars

\* A well-formed POST naming another user's company was turned down.
C10_Witness ==
    /\ response.op = "app_post" /\ response.code = 400
    /\ response.message = "Company not found or does not belong to user"
    /\ \E c \in DOMAIN companies : companies[c].userId # response.user
    /\ applications = <<>>

(* ---- C11 ---- *)
\* The payload of handler r names a company that is not the caller's.
NamesForeignCompany(r) ==
    LET c == reqs[r].body.companyId IN
    c # NoId /\ (c \notin DOMAIN companies \/ companies[c].userId # reqs[r].user)

\* C11: a PUT whose companyId names no company of the caller is answered 400
\* at its company lookup and its handler ends there; neither that step nor the
\* lookup of the application before it changes any row or history entry,
\* whatever status the payload carries.
C11_UpdateForeignCompanyRejected ==
    [][\A r \in ReqIds :
          /\ ( /\ ~InFlight(r)
               /\ \E q \in Requests("app_put") :
                     q.body.companyId # NoId /\ PutFindExistingOf(r, q) )
             => UNCHANGED db
          /\ ( /\ reqs[r].op = "app_put" /\ reqs[r].pc = "put_company"
               /\ NamesForeignCompany(r)
               /\ Steps(r) )
             => /\ reqs'[r] = IdleReq
                /\ response'.code = 400
                /\ response'.message = "Company not found or does not belong to user"
                /\ UNCHANGED db]_vars

\* An update of the caller's own application naming a foreign company was
\* turned down, and a second one, which also asks for a status other than the
\* stored one, stands at its company lookup.
C11_Witness ==
    /\ response.op = "app_put" /\ response.code = 400
    /\ response.message = "Company not found or does not belong to user"
    /\ \E r \in ReqIds :
          /\ reqs[r].op = "app_put" /\ reqs[r].pc = "put_company"
          /\ NamesForeignCompany(r)
          /\ reqs[r].id \in DOMAIN applications
          /\ reqs[r].body.status \in ApplicationStatus
          /\ reqs[r].body.status # applications[reqs[r].id].status

(* ---- C12 ---- *)
\* The fields of an application a payload can carry.
PayloadFields ==
    {"positionTitle", "companyId", "status", "priority", "employmentType",
     "workType", "location"}

\* The payload does not carry field f.
Absent(body, f) == IF f = "companyId" THEN body[f] = NoId ELSE body[f] = None

Inserts(r) ==
    /\ reqs[r].op = "app_post" /\ reqs[r].pc = "post_create"
    /\ reqs'[r].pc = "post_history"

\* C13: the row a POST inserts has status 'applied', priority 'medium',
\* employmentType 'full_time' and workType 'remote' for each of these fields
\* the payload omits, each independently of the other three, and carries the
\* caller, the company and the title of the payload.
C13_CreateDefaults ==
    [][\A r \in ReqIds :
          Inserts(r) =>
              LET body == reqs[r].body
                  a == reqs'[r].application.id
              IN /\ a \notin DOMAIN applications
                 /\ a \in DOMAIN applications'
                 /\ LET row == applications'[a] IN
                       /\ row.userId = reqs[r].user
                       /\ row.companyId = body.companyId
                       /\ row.positionTitle = body.positionTitle
                       /\ body.status = None => row.status = "applied"
                       /\ body.priority = None => row.priority = "medium"
                       /\ body.employmentType = None => row.employmentType = "full_time"
                       /\ body.workType = None => row.workType = "remote"]_vars

\* A POST carrying only companyId and positionTitle has inserted its row,
\* which holds the four defaults.
C13_Witness ==
    \E r \in ReqIds :
        /\ reqs[r].op = "app_post" /\ reqs[r].pc = "post_history"
        /\ reqs[r].body.status = None /\ reqs[r].body.priority = None
        /\ reqs[r].body.employmentType = None /\ reqs[r].body.workType = None
        /\ reqs[r].application.id \in DOMAIN applications
        /\ LET row == applications[reqs[r].application.id] IN
              /\ row.status = "applied" /\ row.priority = "medium"
              /\ row.employmentType = "full_time" /\ row.workType = "remote"

(* ---- C14 ---- *)
\* The application ids that were deleted: issued by the SERIAL, row gone.
Deleted == {a \in AppIds : a < nextApplicationId /\ a \notin DOMAIN applications}

\* C14: in every reachable state, under every interleaving of DELETE with
\* updates, interview creation and document linking, no StatusHistory,
\* Interview, Task or Document row references a deleted application.
C14_NoRowReferencesDeleted ==
    \A a \in Deleted :
        /\ statusHistory[a] = <<>>
        /\ \A i \in DOMAIN interviews : interviews[i].applicationId # a
        /\ \A t \in DOMAIN tasks : tasks[t].applicationId # a
        /\ \A d \in DOMAIN documents : documents[d].applicationId # a

\* A DELETE succeeded after an interview insert and a document upload, while
\* an update of the deleted application, or the linking of a document to it,
\* has passed its lookup and stands before its write.
C14_Witness ==
    /\ response.op = "app_delete" /\ response.code = 200
    /\ response.id \in Deleted
    /\ nextInterviewId > 1
    /\ documents # <<>>
    /\ \E r \in ReqIds :
          /\ reqs[r].op \in {"app_put", "document_patch"}
          /\ reqs[r].pc \in {"put_update", "put_history", "document_update"}
          /\ IF reqs[r].op = "app_put" THEN reqs[r].id = response.id
                ELSE reqs[r].body.applicationId = response.id

(* ---- C15 ---- *)
\* C15: for employmentType, workType, priority and status, a storage value
\* listed in the field's mapping table that is mapped back for the form and
\* mapped again by the backend is the value it was: map(reverseMap(x)) = x.
C15_RoundTrip ==
    ( /\ probe.stage = "restored"
      /\ probe.field \in ReverseMapperFields
      /\ probe.origin \in DOMAIN ReverseMappingOf(probe.field) )
    => probe.value = probe.origin

\* 'on_site', read from a row, went to the form as 'on-site' and came back.
C15_Witness ==
    /\ probe.stage = "restored" /\ probe.field = "workType"
    /\ probe.origin = "on_site" /\ probe.arg = "on-site"
    /\ probe.value = "on_site"

(* ---- C16 ---- *)
\* The default the specification documents for each mapper.
DocumentedDefault(field) ==
    CASE field = "employmentType" -> "full_time"
      [] field = "workType" -> "remote"
      [] field = "priority" -> "medium"
      [] field = "status" -> "applied"
      [] field = "type" -> "phone"

C17_StoredStatusValid ==
    \A a \in DOMAIN applications :
        /\ applications[a].status \in ApplicationStatus
        /\ ~IsNull(applications[a].status)

\* The owner's update of an application was refused as invalid, and the
\* application holds a status an earlier request gave it.
C17_Witness ==
    /\ response.op = "app_put" /\ response.code = 400
    /\ response.message = "Validation failed"
    /\ response.id \in DOMAIN applications
    /\ applications[response.id].userId = response.user
    /\ applications[response.id].status = "interviewed"

(* ---- C18 ---- *)
IsPrefix(h, g) == Len(h) <= Len(g) /\ SubSeq(g, 1, Len(h)) = h

\* C18: StatusHistory is append-only: in every step, the history of an
\* application that exists after the step has its history before the step
\* as a prefix, and the history of an id changes otherwise only in the step
\* of a DELETE that removes that application.
C18_HistoryAppendOnly ==
    [][\A a \in AppIds :
          IF a \in DOMAIN applications'
            THEN IsPrefix(statusHistory[a], statusHistory'[a])
            ELSE statusHistory'[a] # statusHistory[a] =>
                    /\ a \in DOMAIN applications
                    /\ \E r \in ReqIds :
                          /\ reqs[r].op = "app_delete" /\ reqs[r].id = a
                          /\ Steps(r)]_vars

\* An update has appended to the history of an application that still exists.
C18_Witness ==
    /\ response.op = "app_put" /\ response.code = 200
    /\ response.id \in DOMAIN applications
    /\ Len(statusHistory[response.id]) >= 2
    /\ statusHistory[response.id][1].notes = "Application created"

(* ---- C19 ---- *)
\* Handler r, a PUT, writes its update in this step.
Updates(r) ==
    /\ reqs[r].op = "app_put" /\ reqs[r].pc = "put_update"
    /\ Steps(r)
    /\ reqs[r].id \in DOMAIN applications'
    /\ ~(reqs'[r].pc = "idle" /\ response'.code = 500)

\* The payload's employmentType and workType are as table says in the row.
Translated(body, row) ==
    /\ body.employmentType \in DOMAIN EmploymentTypeMapping
          => row.employmentType = EmploymentTypeMapping[body.employmentType]
    /\ body.workType \in DOMAIN WorkTypeMapping
          => row.workType = WorkTypeMapping[body.workType]

\* Request q arrives and its handler takes its first step.
Arrives(r, q) ==
    /\ q.op = response'.op
    /\ \/ (q.op = "app_post" /\ PostFindCompanyOf(r, q))
       \/ (q.op = "app_put" /\ PutFindExistingOf(r, q))

\* The step answers an arriving request 400 'Validation failed'.
Refused == reqs' = reqs /\ response'.code = 400 /\ response'.message = "Validation failed"

FieldTraffic == FieldRequests("app_post") \cup FieldRequests("app_put")

\* The requests whose enum fields carry presentation spellings only.
PresentableTraffic ==
    {q \in FieldTraffic :
        /\ q.body.employmentType \in {None} \cup DOMAIN EmploymentTypeMapping
        /\ q.body.workType \in {None} \cup DOMAIN WorkTypeMapping
        /\ q.body.priority \in {None} \cup DOMAIN PriorityMapping}

\* The requests that carry a priority of the data model, and no employment
\* type the schema refuses.
PriorityTraffic ==
    {q \in FieldTraffic :
        /\ q.body.priority \in Priority
        /\ q.body.employmentType \in {None} \cup DOMAIN EmploymentTypeMapping}

\* C19: no request that POST or PUT refuses as invalid is one whose enum
\* fields carry presentation spellings ('full-time', 'part-time', 'on-site',
\* ...) only; POST and PUT store the
\* storage spelling of what the payload carries, and every stored
\* employmentType is one of full_time, part_time, contract, internship and
\* every stored workType one of remote, hybrid, on_site.
C19_SpellingsTranslated ==
    [][/\ \A a \in DOMAIN applications' :
            /\ applications'[a].employmentType \in EmploymentType
            /\ applications'[a].workType \in WorkType
       /\ Refused => \A r \in ReqIds, q \in PresentableTraffic : ~Arrives(r, q)
       /\ \A r \in ReqIds :
             /\ Inserts(r) =>
                   Translated(reqs[r].body, applications'[reqs'[r].application.id])
             /\ Updates(r) =>
                   Translated(reqs[r].body, applications'[reqs[r].id])]_vars

\* A row created with 'part-time' and 'on-site' holds part_time and on_site,
\* and an update that sent 'full-time' and 'hybrid' stands after its write.
C19_Witness ==
    \E r \in ReqIds :
        /\ reqs[r].op = "app_put" /\ reqs[r].pc = "put_history"
        /\ reqs[r].body.employmentType = "full-time"
        /\ reqs[r].body.workType = "hybrid"
        /\ reqs[r].existingApplication.employmentType = "part_time"
        /\ reqs[r].existingApplication.workType = "on_site"
        /\ applications[reqs[r].id].employmentType = "full_time"
        /\ applications[reqs[r].id].workType = "hybrid"

(* ---- C20 ---- *)
\* C20: an application can be created and updated with any priority of the
\* data model (low, medium, high, urgent): no request refused as invalid is
\* one that carries such a priority, and the row is stored with exactly the
\* priority of the payload.
C20_AnyPriorityStored ==
    [][/\ Refused => \A r \in ReqIds, q \in PriorityTraffic : ~Arrives(r, q)
       /\ \A r \in ReqIds :
             /\ (Inserts(r) /\ reqs[r].body.priority \in Priority) =>
                   applications'[reqs'[r].application.id].priority = reqs[r].body.priority
             /\ (Updates(r) /\ reqs[r].body.priority \in Priority) =>
                   applications'[reqs[r].id].priority = reqs[r].body.priority]_vars

(* ---- C21 ---- *)
\* No user owns two companies of one name.
NamesUniquePerUser ==
    \A c, d \in DOMAIN companies :
        (c # d /\ companies[c].userId = companies[d].userId)
            => companies[c].name # companies[d].name

\* Handler r sends the response of a company create or rename whose name
\* another company of the same user holds at that moment.
AnswersTakenName(r) ==
    /\ Steps(r) /\ reqs'[r].pc = "idle"
    /\ \/ /\ reqs[r].op = "company_post"
          /\ CompanyNameTaken(reqs[r].body.name, reqs[r].user)
       \/ /\ reqs[r].op = "company_put"
          /\ reqs[r].body.name # None
          /\ CompanyOwned(reqs[r].id, reqs[r].user)
          /\ CompanyNameTakenByOther(reqs[r].body.name, reqs[r].user, reqs[r].id)

\* C21: company names are unique per user: no state holds two companies of
\* one user with the same name, and a create or rename to a name the user's
\* other company holds is answered with a conflict (a 4xx, never a server
\* error) and changes no company, concurrent requests included.
C21_NamesUniqueConflictRejected ==
    [][/\ NamesUniquePerUser'
       /\ \A r \in ReqIds :
             AnswersTakenName(r) =>
                 /\ response'.code \in 400..499
                 /\ companies' = companies]_vars

(* ---- C22 ---- *)
\* The tokens the middleware has to turn away: none, not a token of this
\* server, expired, or of a user who is gone.
Rejectable ==
    {t \in Tokens : t.kind # "signed" \/ t.userId \notin Users}

AuthTraffic ==
    UNION {Unauthenticated(op) :
              op \in {"company_post", "app_post", "app_delete", "app_list",
                      "document_post"}}

Quiescent == \A r \in ReqIds : ~InFlight(r)

\* C23: once every create and update request has been answered, the status
\* of the StatusHistory entry created last is the stored status of its
\* application, whatever the interleaving of the requests was.
C23_LatestEntryIsCurrentStatus ==
    Quiescent =>
        \A a \in DOMAIN applications :
            /\ statusHistory[a] # <<>>
            /\ Last(statusHistory[a]).status = applications[a].status

(* ---- C24 ---- *)
\* C24: every stored application has at least one StatusHistory entry, in
\* every reachable state, the states between the steps of a POST included.
C24_EveryApplicationHasHistory ==
    \A a \in DOMAIN applications : Len(statusHistory[a]) >= 1

(* ---- C25 ---- *)
\* C25: the status change of the detail page works for every stored
\* application: the PUT that carries the application object the page got from
\* GET /api/applications/:id, with status replaced and companyId set, is
\* answered 200, the stored status is then the new one, and the GET that
\* follows shows the history entry of the change first.
C25_DetailStatusChangeAccepted ==
    [][/\ (page.view = "updating" /\ page'.view # "updating") =>
             /\ page'.view = "refreshing"
             /\ page.id \in DOMAIN applications
             /\ applications[page.id].status = page.newStatus
       /\ (page.view = "refreshing" /\ page'.view # "refreshing") =>
             /\ page'.view = "detail"
             /\ page'.application.status = page.newStatus
             /\ page'.statusHistory # <<>>
             /\ Head(page'.statusHistory).status = page.newStatus]_vars

(* ---- C26 ---- *)
\* C26: any stored application loaded into the edit form (GET, then the
\* reverse mapping) and submitted unchanged (PUT, then the forward mapping)
\* is sent and answered 200, and its stored status, priority, employmentType
\* and workType are what they were when the form loaded, with no history
\* entry added.
C26_EditRoundTripKeepsFields ==
    [][/\ (page.view = "edit" /\ page'.view # "edit") => page'.view = "saving"
       /\ (page.view = "saving" /\ page'.view # "saving") =>
             /\ page'.view = "saved"
             /\ page.id \in DOMAIN applications
             /\ \A f \in {"status", "priority", "employmentType", "workType"} :
                   applications[page.id][f] = page.application[f]
             /\ NewestFirst(statusHistory[page.id]) = page.statusHistory]_vars

(* ---- C27 ---- *)
\* C27: DELETE /api/applications/bulk with a non-empty ids array reaches the
\* bulk handler and is all-or-nothing: when every id is an application of the
\* caller the handler goes on to delete them all and answers deletedCount =
\* the number of ids; otherwise it refuses the request as a whole and no
\* application is deleted.
C27_BulkDeleteAllOrNothing ==
    [][\A r \in ReqIds :
          /\ ~InFlight(r) =>
                \A q \in DeleteTraffic :
                    (q.body.ids # <<>> /\ DeleteDispatchOf(r, q, "bulk")) =>
                        IF Cardinality(BulkWhere(q.body.ids, q.user)) = Len(q.body.ids)
                          THEN /\ reqs'[r].op = "app_bulk_delete"
                               /\ reqs'[r].pc = "bulk_delete_many"
                          ELSE /\ response'.code = 400
                               /\ response'.message =
                                     "Some applications not found or do not belong to user"
                               /\ applications' = applications
          /\ Responds(r, "app_bulk_delete", "bulk_delete_many") =>
                /\ \A i \in 1..Len(reqs[r].body.ids) :
                      reqs[r].body.ids[i] \notin DOMAIN applications'
                /\ response'.out = {[deletedCount |-> Len(reqs[r].body.ids)]}]_vars

(* ---- C28 ---- *)
\* C28: DELETE /api/companies/:id is refused while the company has an
\* application, and no step of a company delete removes an application,
\* whatever application creates and updates naming that company run beside it.
C28_CompanyDeleteKeepsApplications ==
    [][\A r \in ReqIds :
          /\ ~InFlight(r) =>
                \A q \in CompanyRequests("company_delete") :
                    ( /\ CompanyOwned(q.id, q.user)
                      /\ CountApplications(q.id) > 0
                      /\ CompanyDeleteFindOf(r, q) ) =>
                        /\ response'.op = "company_delete"
                        /\ response'.code = 400
                        /\ reqs' = reqs
          /\ (reqs[r].op = "company_delete" /\ Steps(r)) =>
                \A a \in DOMAIN applications :
                    /\ a \in DOMAIN applications'
                    /\ applications'[a] = applications[a]]_vars

(* ---- C29 ---- *)
\* C29: every document linked to an application belongs to the owner of
\* that application, whatever uploads and PATCH requests the users send.
C29_LinkedDocumentSameOwner ==
    \A d \in DOMAIN documents :
        documents[d].applicationId # NoId =>
            /\ documents[d].applicationId \in DOMAIN applications
            /\ applications[documents[d].applicationId].userId = documents[d].userId

(* ---- C30 ---- *)
\* C30: every stored application names a company that exists and belongs to
\* the application's own user, in every state the application and company
\* requests of any users can reach.
C30_ApplicationCompanySameOwner ==
    \A a \in DOMAIN applications :
        /\ applications[a].companyId \in DOMAIN companies
        /\ companies[applications[a].companyId].userId = applications[a].userId

\* A company has just been deleted while an application, at the company
\* that is left, is stored.
C30_Witness ==
    /\ response.op = "company_delete" /\ response.code = 200
    /\ applications # <<>>
    /\ companies # <<>>

====
